---- MODULE Spec2Model ----
(***************************************************************************)
(* chatbot_v2 as state machines: the POST /query handler (Spec), the       *)
(* document parser parseDocContent (SpecParse) and the ingestion upload    *)
(* uploadQAPairsToPinecone with the queries against the index (SpecUpload).*)
(*                                                                         *)
(* The repository holds three versions of the handler:                     *)
(*   "route"   src/src/app/api/query/route.ts   (searches one after the    *)
(*             other, threshold 0.80)                                      *)
(*   "sheets"  src/src/lib/sheets.ts:109-245    (Promise.all, threshold    *)
(*             0.90)                                                       *)
(*   "part003" src/unnamed/part_003             (Promise.all, threshold    *)
(*             0.80, no generation, Dutch message)                         *)
(* and two versions of lib/openai.ts in one file: "azure" (lines 1-325)    *)
(* and "openai" (lines 326-607, with the fallback to the FAST model).      *)
(* One request is followed from its arrival to its response; every await   *)
(* of an outbound call is a step of its own.  Scores are in hundredths.    *)
(* Strings the code trims or splits are sequences of characters; an        *)
(* optional value (undefined in the code) is <<>> and a present value v is *)
(* <<v>>.  The upload scripts come in two versions: "import"               *)
(* (src/import-from-google-docs.js, QA pairs and general sources, with a   *)
(* type field) and "ingest" (src/src/scripts/ingest.ts, QA pairs only, no  *)
(* type field).                                                            *)
(***************************************************************************)
EXTENDS Integers, Sequences, FiniteSets, TLC

VARIABLES
  variant,   \* which version of POST serves the request
  pc,        \* the await the request is suspended at; "idle" before, "done" after
  body,      \* route.ts:47   body = await request.json()
  question,  \* route.ts:57   body.question.trim()
  topK,      \* route.ts:58   body.topK || 3
  emb,       \* route.ts:62   await getEmbedding(question)
  qa,        \* route.ts:66   await querySimilarQuestions(embedding, topK)
  gs,        \* route.ts:72   await queryGeneralSources(embedding, 5)
  gen,       \* route.ts:90   await generateAnswer / generateAnswerFromGeneralSources
  calls,     \* the outbound calls issued so far, in order, with their arguments
  lib,       \* the version of lib/openai.ts serving the generation call; "none" before it
  requests,  \* the models of the chat-completion requests sent to the provider
  thrown,    \* route.ts:170  the Error the catch block received, if any
  response   \* the NextResponse returned: status and JSON body

handlerVars == <<variant, pc, body, question, topK, emb, qa, gs, gen, calls, lib, requests,
                thrown, response>>

\* parseDocContent of src/import-from-google-docs.js
VARIABLES
  parsePc,         \* position in parseDocContent: "idle" until it is called
  content,         \* :173  the document text, a sequence of characters
  lines,           \* :178  content.split('\n').map(trim).filter(Boolean)
  lineNo,          \* :181, :192  position (0-based) of the line the running loop is at
  qaPairs,         \* :174  the pairs pushed so far; the qaPairs argument of the upload
  generalSources,  \* :175  the general sources pushed so far; argument of the upload
  emittedAt        \* history: for each pushed pair, the position of its question line

parseVars == <<parsePc, content, lines, lineNo, emittedAt>>
docVars == <<qaPairs, generalSources>>

\* uploadQAPairsToPinecone of src/import-from-google-docs.js (lines below) and
\* of src/src/scripts/ingest.ts
VARIABLES
  script,          \* which script is run: "import" or "ingest"
  run,             \* number of runs of the script started so far
  uploadPc,        \* position in the run: "idle", "loop", "embedding", "upsert", "failed"
  phase,           \* which of the two loops runs: "qa" (:93) or "general" (:130)
  batchStart,      \* :87   position of the first record of the batch the loop is at
  counter,         \* :92, :129  qaCounter / generalCounter (ingest.ts:30 counter)
  inFlight,        \* :97   positions of the batch whose getEmbedding has not returned
  vectors,         \* :94   the vectors the batch's callbacks have returned
  index,           \* the Pinecone index: the records upserted so far
  before,          \* history: the index as it was when the run started
  upserted,        \* history: the index.upsert calls of the run that have returned
  uploadThrown,    \* :162  the Error the run threw, if any
  matches          \* the last similarity query made against the index and its result

uploadVars ==
  <<script, run, uploadPc, phase, batchStart, counter, inFlight, vectors, index, before,
    upserted, uploadThrown, matches>>

vars == <<handlerVars, parseVars, docVars, uploadVars>>

\* ---------------------------------------------------------------- bounds
MaxLen == 2       \* longest question string of a request body
MaxMatches == 2   \* most matches a QA similarity search returns
MaxGeneral == 2   \* most records a general-source search returns
MaxAttempts == 3  \* most chat-completion requests followed within one generation call

\* ------------------------------------------------------------ input sets
Variants == {"route", "sheets", "part003"}
Libs == {"azure", "openai"}
Chars == {" ", "h"}
Strs == UNION {[1..k -> Chars] : k \in 0..MaxLen}
TopKs == {<<>>, <<0>>, <<5>>}
Bodies == [question : {<<>>} \cup {<<s>> : s \in Strs}, topK : TopKs]
Scores == {50, 80, 90}
QAMetadata == {[question |-> "Q1", answer |-> "A1"], [question |-> "Q2", answer |-> "A2"]}
PineconeMatch == [score : Scores, metadata : QAMetadata]
GeneralMatch == {[score |-> 60, metadata |-> [content |-> "G1"]],
                 [score |-> 75, metadata |-> [content |-> "G2"]]}
QAResults == {<<>>} \cup {<<m>> : m \in UNION {[1..k -> PineconeMatch] : k \in 0..MaxMatches}}
GSResults == {<<>>} \cup {<<g>> : g \in UNION {[1..k -> GeneralMatch] : k \in 0..MaxGeneral}}
Contents == {"", "gen1"}
ProviderErrors == {"quota", "network", "context_length_exceeded"}

\* ------------------------------------------------------ program constants
RouteThreshold == 80
SheetsThreshold == 90
Part003Threshold == 80
DefaultTopK == 3
GeneralTopK == 5
QUESTION_COMPLEXITY_THRESHOLD == 50
CONFIDENCE_THRESHOLD_FOR_GPT4 == 70
DocumentedThreshold == 80
LargeContext == 5

CONFIDENCE_THRESHOLD(v) ==
  IF v = "route" THEN RouteThreshold
  ELSE IF v = "sheets" THEN SheetsThreshold ELSE Part003Threshold

NoInformation == "I'm sorry, I don't have enough information to answer that question accurately."
DutchMessage == "dat antwoord weet ik niet."
CouldNotGenerate == "I'm sorry, I couldn't generate an answer."

\* ------------------------------------------------------------ pure parts
\* String.prototype.trim on a sequence of characters.
RECURSIVE TrimStart(_)
TrimStart(s) == IF s # <<>> /\ Head(s) = " " THEN TrimStart(Tail(s)) ELSE s
RECURSIVE TrimEnd(_)
TrimEnd(s) == IF s # <<>> /\ s[Len(s)] = " " THEN TrimEnd(SubSeq(s, 1, Len(s) - 1)) ELSE s
trim(s) == TrimEnd(TrimStart(s))

\* !body.question: undefined or the empty string.
QuestionMissing(b) == b.question = <<>> \/ b.question[1] = <<>>

\* body.topK || 1: the default the README documents, not the handler's.
TopKOrDefaultOne(b) == IF b.topK = <<>> \/ b.topK[1] = 0 THEN 1 ELSE b.topK[1]

\* body.topK || 3
TopKOrDefault(b) == IF b.topK = <<>> \/ b.topK[1] = 0 THEN DefaultTopK ELSE b.topK[1]

\* !matches || matches.length === 0
NoMatches(r) == r = <<>> \/ r[1] = <<>>

\* The comparison written <= instead of <.
BelowThresholdInclusive(v, score) == score <= CONFIDENCE_THRESHOLD(v)

BelowThreshold(v, score) == score < CONFIDENCE_THRESHOLD(v)

\* matches.map(match => ({question, score}))
MapQuestionScore(ms) ==
  [i \in 1..Len(ms) |-> [question |-> ms[i].metadata.question, score |-> ms[i].score]]

\* matches.map(match => ({question, answer, score}))
MapQuestionAnswerScore(ms) ==
  [i \in 1..Len(ms) |-> [question |-> ms[i].metadata.question,
                         answer |-> ms[i].metadata.answer, score |-> ms[i].score]]

\* data.choices[0].message.content || "I'm sorry, I couldn't generate an answer."
ContentOrDefault(c) == IF c = "" THEN CouldNotGenerate ELSE c

\* The Error each library function throws, whatever the provider's error was.
getEmbeddingError(e) == "Failed to generate embedding"
querySimilarQuestionsError(e) == "Failed to query Pinecone"
queryGeneralSourcesError(e) == "Failed to query Pinecone"
generateAnswerError(e) == "Failed to generate answer with OpenAI"


\* ---------------------------------------------------------- lib/openai.ts
\* (question.match(/\?/g) || []).length
RECURSIVE QuestionMarks(_)
QuestionMarks(q) ==
  IF q = <<>> THEN 0 ELSE (IF Head(q) = "?" THEN 1 ELSE 0) + QuestionMarks(Tail(q))

\* assessQuestionComplexity(question).isComplex.  The two word tests (logical
\* operators, technical terms) need letters no string over Chars holds.
assessQuestionComplexity(q) ==
  Len(q) > QUESTION_COMPLEXITY_THRESHOLD \/ QuestionMarks(q) > 1

\* selectCompletionModel(question, confidence, contextSize) of the OpenAI
\* version; confidence is context[0].score, contextSize is context.length.
selectCompletionModel(q, confidence, contextSize) ==
  IF confidence < CONFIDENCE_THRESHOLD_FOR_GPT4 THEN "STANDARD"
  ELSE IF contextSize > LargeContext THEN "STANDARD"
  ELSE IF assessQuestionComplexity(q) THEN "STANDARD"
  ELSE "FAST"

\* const model = forceModel || ... of a call the handler makes (no forceModel).
FirstModel(l, q, context) ==
  IF l = "azure" THEN "STANDARD"
  ELSE selectCompletionModel(q, context[1].score, Len(context))

\* The fallback test without regard to the version of the library.
FallsBackInBothVersions(l, e) == e = "context_length_exceeded"

\* The catch block's test for the fallback: only the OpenAI version has it.
FallsBack(l, e) == l = "openai" /\ e = "context_length_exceeded"

Embedding(text) == <<"embedding", text>>

Call(fn, args) == [fn |-> fn, args |-> args]
None == [st |-> "none", val |-> <<>>]
Pending == [st |-> "pending", val |-> <<>>]
Ok(v) == [st |-> "ok", val |-> v]
Failed == [st |-> "failed", val |-> <<>>]
NoResponse == [status |-> 0, body |-> [none |-> TRUE]]

\* ------------------------------------------------------------- responses
Json200(a, c, sq, src) ==
  [status |-> 200,
   body |-> [question |-> question, answer |-> a, confidence |-> c,
             similarQuestions |-> sq, source |-> src]]

\* The response tagged with the neighbouring branch's source.
NoSourcesMislabelled(text) == Json200(text, 0, <<>>, "general_sources")

\* The "no information" response; text is the handler's fixed message.
NoSources(text) == Json200(text, 0, <<>>, "no_sources")

\* The highest score of the returned matches reported as confidence.
PineconeDirectMax(ms, sq) ==
  LET top == CHOOSE x \in {ms[i].score : i \in 1..Len(ms)} :
               \A j \in 1..Len(ms) : ms[j].score <= x
  IN  Json200(ms[1].metadata.answer, top, sq, "pinecone_direct")

\* The last match taken for the best one.
PineconeDirectLast(ms, sq) ==
  Json200(ms[Len(ms)].metadata.answer, ms[Len(ms)].score, sq, "pinecone_direct")

\* const bestMatch = matches[0]; answer: bestMatch.metadata.answer,
\* confidence: bestMatch.score, similarQuestions: sq, source: 'pinecone_direct'
PineconeDirect(ms, sq) == Json200(ms[1].metadata.answer, ms[1].score, sq, "pinecone_direct")

BadRequest == [status |-> 400, body |-> [error |-> "Question is required"]]

\* The caught error's message passed on to the caller.
CatchBodyLeaky(err) == [error |-> err]

\* catch (error) { ... { error: 'Failed to process request' }, status 500 }
CatchBody(err) == [error |-> "Failed to process request"]

Catch(err) ==
  /\ thrown' = <<err>>
  /\ response' = [status |-> 500, body |-> CatchBody(err)]
  /\ pc' = "done"

Respond(r) ==
  /\ response' = r
  /\ pc' = "done"
  /\ UNCHANGED thrown

\* The scripts are not running while a request is served.
ParseIdle ==
  /\ parsePc = "idle"
  /\ content = <<>>
  /\ lines = <<>>
  /\ lineNo = 0
  /\ emittedAt = <<>>
DocIdle == qaPairs = <<>> /\ generalSources = <<>>
UploadIdle ==
  /\ script = "import"
  /\ run = 0
  /\ uploadPc = "idle"
  /\ phase = "qa"
  /\ batchStart = 0
  /\ counter = 0
  /\ inFlight = {}
  /\ vectors = {}
  /\ index = {}
  /\ before = {}
  /\ upserted = <<>>
  /\ uploadThrown = <<>>
  /\ matches = <<>>

Init ==
  /\ variant \in Variants
  /\ pc = "idle"
  /\ body = [question |-> <<>>, topK |-> <<>>]
  /\ question = <<>>
  /\ topK = DefaultTopK
  /\ emb = None
  /\ qa = None
  /\ gs = None
  /\ gen = None
  /\ lib = "none"
  /\ requests = <<>>
  /\ calls = <<>>
  /\ thrown = <<>>
  /\ response = NoResponse
  /\ ParseIdle
  /\ DocIdle
  /\ UploadIdle

\* POST: parse the body, validate, trim, and call getEmbedding.
Receive ==
  /\ pc = "idle"
  /\ \E b \in Bodies :
       /\ body' = b
       /\ IF QuestionMissing(b)
          THEN /\ Respond(BadRequest)
               /\ UNCHANGED <<question, topK, emb, calls>>
          ELSE /\ question' = trim(b.question[1])
               /\ topK' = TopKOrDefault(b)
               /\ calls' = Append(calls, Call("getEmbedding", <<trim(b.question[1])>>))
               /\ emb' = Pending
               /\ pc' = "awaitEmbedding"
               /\ UNCHANGED <<thrown, response>>
  /\ UNCHANGED <<variant, lib, qa, gs, gen, requests>>
  /\ UNCHANGED <<parseVars, docVars, uploadVars>>

\* ------------------------------------------------- embedding (all versions)
\* getEmbedding throws: the handler's catch answers 500.
EmbeddingFails ==
  /\ pc = "awaitEmbedding"
  /\ emb' = Failed
  /\ \E e \in ProviderErrors : Catch(getEmbeddingError(e))
  /\ UNCHANGED <<variant, lib, body, question, topK, qa, gs, gen, calls, requests>>
  /\ UNCHANGED <<parseVars, docVars, uploadVars>>

\* route.ts: the embedding is back; only the QA search is issued and awaited.
RouteEmbedded ==
  /\ variant = "route"
  /\ pc = "awaitEmbedding"
  /\ calls' = Append(calls, Call("querySimilarQuestions", <<Embedding(question), topK>>))
  /\ emb' = Ok(Embedding(question))
  /\ qa' = Pending
  /\ pc' = "awaitQA"
  /\ UNCHANGED <<variant, lib, body, question, topK, gs, gen, thrown, response, requests>>
  /\ UNCHANGED <<parseVars, docVars, uploadVars>>

\* Promise.all([querySimilarQuestions(..), queryGeneralSources(..)]): both
\* searches are issued in the same synchronous stretch.
IssueBoth ==
  /\ pc = "awaitEmbedding"
  /\ calls' = calls \o <<Call("querySimilarQuestions", <<Embedding(question), topK>>),
                         Call("queryGeneralSources", <<Embedding(question), GeneralTopK>>)>>
  /\ emb' = Ok(Embedding(question))
  /\ qa' = Pending
  /\ gs' = Pending
  /\ pc' = "awaitBoth"
  /\ UNCHANGED <<variant, lib, body, question, topK, gen, thrown, response, requests>>

SheetsEmbedded == variant = "sheets" /\ IssueBoth
  /\ UNCHANGED <<parseVars, docVars, uploadVars>>

Part003Embedded == variant = "part003" /\ IssueBoth
  /\ UNCHANGED <<parseVars, docVars, uploadVars>>

\* ---------------------------------------------------------------- route.ts
RouteQAFails ==
  /\ variant = "route"
  /\ pc = "awaitQA"
  /\ qa' = Failed
  /\ \E e \in ProviderErrors : Catch(querySimilarQuestionsError(e))
  /\ UNCHANGED <<variant, lib, body, question, topK, emb, gs, gen, calls, requests>>
  /\ UNCHANGED <<parseVars, docVars, uploadVars>>

\* The QA search is back.  No match or a low best score: the general-source
\* search is issued now.  Otherwise the best match's answer is returned.
RouteQAReturns ==
  /\ variant = "route"
  /\ pc = "awaitQA"
  /\ \E r \in QAResults :
       /\ qa' = Ok(r)
       /\ IF NoMatches(r) \/ BelowThreshold(variant, r[1][1].score)
          THEN /\ calls' = Append(calls, Call("queryGeneralSources",
                                              <<Embedding(question), GeneralTopK>>))
               /\ gs' = Pending
               /\ pc' = "awaitGS"
               /\ UNCHANGED <<thrown, response>>
          ELSE /\ Respond(PineconeDirect(r[1], MapQuestionScore(r[1])))
               /\ UNCHANGED <<calls, gs>>
  /\ UNCHANGED <<variant, lib, body, question, topK, emb, gen, requests>>
  /\ UNCHANGED <<parseVars, docVars, uploadVars>>

RouteGSFails ==
  /\ variant = "route"
  /\ pc = "awaitGS"
  /\ gs' = Failed
  /\ \E e \in ProviderErrors : Catch(queryGeneralSourcesError(e))
  /\ UNCHANGED <<variant, lib, body, question, topK, emb, qa, gen, calls, requests>>
  /\ UNCHANGED <<parseVars, docVars, uploadVars>>

\* The general-source search is back (route.ts:72-90 and 112-136).
RouteGSReturns ==
  /\ variant = "route"
  /\ pc = "awaitGS"
  /\ \E g \in GSResults :
       /\ gs' = Ok(g)
       /\ IF NoMatches(qa.val)
          THEN IF NoMatches(g)
               THEN /\ Respond(NoSources(NoInformation))
                    /\ UNCHANGED <<calls, gen, lib, requests>>
               ELSE /\ calls' = Append(calls, Call("generateAnswerFromGeneralSources",
                                                   <<question, g[1]>>))
                    /\ gen' = Pending
                    /\ \E l \in Libs :
                         /\ lib' = l
                         /\ requests' = <<FirstModel(l, question, g[1])>>
                    /\ pc' = "awaitGenGeneral"
                    /\ UNCHANGED <<thrown, response>>
          ELSE IF NoMatches(g)
               THEN /\ calls' = Append(calls, Call("generateAnswer", <<question, qa.val[1]>>))
                    /\ gen' = Pending
                    /\ \E l \in Libs :
                         /\ lib' = l
                         /\ requests' = <<FirstModel(l, question, qa.val[1])>>
                    /\ pc' = "awaitGenSimilar"
                    /\ UNCHANGED <<thrown, response>>
               ELSE /\ calls' = Append(calls, Call("generateAnswerFromGeneralSources",
                                                   <<question, g[1]>>))
                    /\ gen' = Pending
                    /\ \E l \in Libs :
                         /\ lib' = l
                         /\ requests' = <<FirstModel(l, question, g[1])>>
                    /\ pc' = "awaitGenGeneral"
                    /\ UNCHANGED <<thrown, response>>
  /\ UNCHANGED <<variant, body, question, topK, emb, qa>>
  /\ UNCHANGED <<parseVars, docVars, uploadVars>>

\* The generation call is back: the response of the branch that made it.
RouteGenerated ==
  /\ variant = "route"
  /\ pc \in {"awaitGenGeneral", "awaitGenSimilar"}
  /\ \E c \in Contents :
       /\ gen' = Ok(ContentOrDefault(c))
       /\ IF NoMatches(qa.val)
          THEN Respond(Json200(ContentOrDefault(c), 0, <<>>, "general_sources"))
          ELSE Respond(Json200(ContentOrDefault(c), qa.val[1][1].score,
                               MapQuestionScore(qa.val[1]),
                               IF pc = "awaitGenSimilar" THEN "similar_questions"
                                                         ELSE "general_sources"))
  /\ UNCHANGED <<variant, lib, body, question, topK, emb, qa, gs, calls, requests>>
  /\ UNCHANGED <<parseVars, docVars, uploadVars>>

\* ------------------------------------------- sheets.ts and part_003: searches
\* Promise.all rejects as soon as one search fails.
ParallelQAFails ==
  /\ pc = "awaitBoth"
  /\ qa.st = "pending"
  /\ qa' = Failed
  /\ \E e \in ProviderErrors : Catch(querySimilarQuestionsError(e))
  /\ UNCHANGED <<variant, lib, body, question, topK, emb, gs, gen, calls, requests>>
  /\ UNCHANGED <<parseVars, docVars, uploadVars>>

ParallelGSFails ==
  /\ pc = "awaitBoth"
  /\ gs.st = "pending"
  /\ gs' = Failed
  /\ \E e \in ProviderErrors : Catch(queryGeneralSourcesError(e))
  /\ UNCHANGED <<variant, lib, body, question, topK, emb, qa, gen, calls, requests>>
  /\ UNCHANGED <<parseVars, docVars, uploadVars>>

ParallelQAReturns ==
  /\ pc = "awaitBoth"
  /\ qa.st = "pending"
  /\ \E r \in QAResults : qa' = Ok(r)
  /\ UNCHANGED <<variant, lib, pc, body, question, topK, emb, gs, gen, calls, thrown,
                 response, requests>>
  /\ UNCHANGED <<parseVars, docVars, uploadVars>>

ParallelGSReturns ==
  /\ pc = "awaitBoth"
  /\ gs.st = "pending"
  /\ \E g \in GSResults : gs' = Ok(g)
  /\ UNCHANGED <<variant, lib, pc, body, question, topK, emb, qa, gen, calls, thrown,
                 response, requests>>
  /\ UNCHANGED <<parseVars, docVars, uploadVars>>

\* --------------------------------------------------------------- sheets.ts
\* Both searches are back: the decision tree of sheets.ts:143-233.
SheetsBranch ==
  /\ variant = "sheets"
  /\ pc = "awaitBoth"
  /\ qa.st = "ok"
  /\ gs.st = "ok"
  /\ IF NoMatches(qa.val)
     THEN IF NoMatches(gs.val)
          THEN /\ Respond(NoSources(NoInformation))
               /\ UNCHANGED <<calls, gen, lib, requests>>
          ELSE /\ calls' = Append(calls, Call("generateAnswerFromGeneralSources",
                                              <<question, gs.val[1]>>))
               /\ gen' = Pending
               /\ \E l \in Libs :
                    /\ lib' = l
                    /\ requests' = <<FirstModel(l, question, gs.val[1])>>
               /\ pc' = "awaitGenGeneral"
               /\ UNCHANGED <<thrown, response>>
     ELSE IF BelowThreshold(variant, qa.val[1][1].score)
          THEN IF NoMatches(gs.val)
               THEN /\ calls' = Append(calls, Call("generateAnswer", <<question, qa.val[1]>>))
                    /\ gen' = Pending
                    /\ \E l \in Libs :
                         /\ lib' = l
                         /\ requests' = <<FirstModel(l, question, qa.val[1])>>
                    /\ pc' = "awaitGenSimilar"
                    /\ UNCHANGED <<thrown, response>>
               ELSE /\ calls' = Append(calls, Call("generateAnswerFromGeneralSources",
                                                   <<question, gs.val[1]>>))
                    /\ gen' = Pending
                    /\ \E l \in Libs :
                         /\ lib' = l
                         /\ requests' = <<FirstModel(l, question, gs.val[1])>>
                    /\ pc' = "awaitGenGeneral"
                    /\ UNCHANGED <<thrown, response>>
          ELSE /\ Respond(PineconeDirect(qa.val[1], MapQuestionAnswerScore(qa.val[1])))
               /\ UNCHANGED <<calls, gen, lib, requests>>
  /\ UNCHANGED <<variant, body, question, topK, emb, qa, gs>>
  /\ UNCHANGED <<parseVars, docVars, uploadVars>>

SheetsGenerated ==
  /\ variant = "sheets"
  /\ pc \in {"awaitGenGeneral", "awaitGenSimilar"}
  /\ \E c \in Contents :
       /\ gen' = Ok(ContentOrDefault(c))
       /\ IF NoMatches(qa.val)
          THEN Respond(Json200(ContentOrDefault(c), 0, <<>>, "general_sources"))
          ELSE Respond(Json200(ContentOrDefault(c), qa.val[1][1].score,
                               MapQuestionScore(qa.val[1]),
                               IF pc = "awaitGenSimilar" THEN "similar_questions"
                                                         ELSE "general_sources"))
  /\ UNCHANGED <<variant, lib, body, question, topK, emb, qa, gs, calls, requests>>
  /\ UNCHANGED <<parseVars, docVars, uploadVars>>

\* ---------------------------------------------------------------- part_003
\* Both searches are back: part_003:78-127 never looks at generalSources.
Part003Branch ==
  /\ variant = "part003"
  /\ pc = "awaitBoth"
  /\ qa.st = "ok"
  /\ gs.st = "ok"
  /\ IF NoMatches(qa.val)
     THEN Respond(NoSources(DutchMessage))
     ELSE IF BelowThreshold(variant, qa.val[1][1].score)
          THEN Respond(Json200(DutchMessage, qa.val[1][1].score,
                               MapQuestionScore(qa.val[1]), "low_confidence"))
          ELSE Respond(PineconeDirect(qa.val[1], MapQuestionAnswerScore(qa.val[1])))
  /\ UNCHANGED <<variant, lib, body, question, topK, emb, qa, gs, gen, calls, requests>>
  /\ UNCHANGED <<parseVars, docVars, uploadVars>>

\* ------------------------------------------------ generation fails (route, sheets)
GenerationFails ==
  /\ pc \in {"awaitGenGeneral", "awaitGenSimilar"}
  /\ gen' = Failed
  /\ \E e \in ProviderErrors : ~FallsBack(lib, e) /\ Catch(generateAnswerError(e))
  /\ UNCHANGED <<variant, lib, body, question, topK, emb, qa, gs, calls, requests>>
  /\ UNCHANGED <<parseVars, docVars, uploadVars>>

\* OpenAI version: the request failed with 400 context_length_exceeded and the
\* catch block calls the function again with COMPLETION_MODELS.FAST.
GenerationFallsBack ==
  /\ pc \in {"awaitGenGeneral", "awaitGenSimilar"}
  /\ Len(requests) < MaxAttempts
  /\ FallsBack(lib, "context_length_exceeded")
  /\ requests' = Append(requests, "FAST")
  /\ UNCHANGED <<variant, lib, pc, body, question, topK, emb, qa, gs, gen, calls, thrown,
                 response>>
  /\ UNCHANGED <<parseVars, docVars, uploadVars>>

Next ==
  \/ Receive
  \/ EmbeddingFails
  \/ RouteEmbedded
  \/ SheetsEmbedded
  \/ Part003Embedded
  \/ RouteQAFails
  \/ RouteQAReturns
  \/ RouteGSFails
  \/ RouteGSReturns
  \/ RouteGenerated
  \/ ParallelQAFails
  \/ ParallelGSFails
  \/ ParallelQAReturns
  \/ ParallelGSReturns
  \/ SheetsBranch
  \/ SheetsGenerated
  \/ Part003Branch
  \/ GenerationFails
  \/ GenerationFallsBack

Spec == Init /\ [][Next]_vars

\* ======================================================================
\* Properties of POST /query
\* ======================================================================
Done == pc = "done"
NoFailure == thrown = <<>>
HasMatch == qa.st = "ok" /\ ~NoMatches(qa.val)
NoMatch == qa.st = "ok" /\ NoMatches(qa.val)
Matches == IF HasMatch THEN qa.val[1] ELSE <<>>
bestMatch == qa.val[1][1]
HighConfidence == HasMatch /\ bestMatch.score >= CONFIDENCE_THRESHOLD(variant)
LowConfidence == HasMatch /\ bestMatch.score < CONFIDENCE_THRESHOLD(variant)
HasGeneral == gs.st = "ok" /\ ~NoMatches(gs.val)
NoGeneral == gs.st = "ok" /\ NoMatches(gs.val)
GenerationFns == {"generateAnswer", "generateAnswerFromGeneralSources"}
GenerationCalls == SelectSeq(calls, LAMBDA c : c.fn \in GenerationFns)
SourceTags == {"pinecone_direct", "general_sources", "similar_questions", "no_sources"}
Blank(b) == QuestionMissing(b) \/ trim(b.question[1]) = <<>>

\* C1: every request that passes validation and meets no provider failure is
\* answered with a source that is one of pinecone_direct, general_sources,
\* similar_questions, no_sources.
C1_SourceIsOneOfFour ==
  (Done /\ response.status = 200) => response.body.source \in SourceTags

\* C2: a request whose first QA match scores at or above the threshold (and
\* that meets no provider failure) is answered 200 with source pinecone_direct,
\* the first match's stored answer unchanged, and that score as confidence,
\* whatever the general-source search returned.
C2_HighConfidenceDirect ==
  (Done /\ NoFailure /\ HighConfidence) =>
    /\ response.status = 200
    /\ response.body.source = "pinecone_direct"
    /\ response.body.answer = bestMatch.metadata.answer
    /\ response.body.confidence = bestMatch.score

C2_Witness ==
  /\ Done /\ NoFailure /\ HighConfidence /\ HasGeneral
  /\ Len(qa.val[1]) = 2
  /\ qa.val[1][1].metadata # qa.val[1][2].metadata
  /\ response.body.source = "pinecone_direct"

C4_NoSources ==
  (NoMatch /\ NoGeneral) =>
    /\ GenerationCalls = <<>>
    /\ pc \notin {"awaitGenGeneral", "awaitGenSimilar"}
    /\ (Done /\ NoFailure) =>
         /\ response.status = 200
         /\ response.body.source = "no_sources"
         /\ response.body.confidence = 0
         /\ response.body.similarQuestions = <<>>
         /\ response.body.answer =
              (IF variant = "part003" THEN DutchMessage ELSE NoInformation)

C4_Witness ==
  /\ Done /\ NoMatch /\ NoGeneral
  /\ qa.val = <<>>
  /\ gs.val = << <<>> >>
  /\ response.status = 200
  /\ response.body.source = "no_sources"

\* C5: general sources found and no high-confidence QA match: the answer has
\* source general_sources, the string the generation call made with the
\* question and those general sources returned, and as confidence the first
\* match's score, or 0 without a QA match.
C5_GeneralSources ==
  (Done /\ NoFailure /\ qa.st = "ok" /\ ~HighConfidence /\ HasGeneral) =>
    /\ response.body.source = "general_sources"
    /\ GenerationCalls =
         <<Call("generateAnswerFromGeneralSources", <<question, gs.val[1]>>)>>
    /\ gen.st = "ok"
    /\ response.body.answer = gen.val
    /\ response.body.confidence = (IF HasMatch THEN bestMatch.score ELSE 0)

\* C6: a low-confidence QA match and no general source: the answer has source
\* similar_questions, the string the generation call made with the question
\* and all returned QA matches returned, and the first match's score as
\* confidence.
C6_SimilarQuestions ==
  (Done /\ NoFailure /\ LowConfidence /\ NoGeneral) =>
    /\ response.body.source = "similar_questions"
    /\ GenerationCalls = <<Call("generateAnswer", <<question, qa.val[1]>>)>>
    /\ gen.st = "ok"
    /\ response.body.answer = gen.val
    /\ response.body.confidence = bestMatch.score

\* C7: in every successful response similarQuestions is the returned QA
\* matches, in order, each as exactly {question, score}; empty without a match.
C7_SimilarQuestionsReflectMatches ==
  (Done /\ response.status = 200) =>
    response.body.similarQuestions = MapQuestionScore(Matches)

\* C8: a request whose question is missing, empty or only whitespace is
\* answered 400 with an error body, and no outbound call is made for it.
C8_BlankQuestionRejected ==
  (pc # "idle" /\ Blank(body)) =>
    /\ calls = <<>>
    /\ Done => (response.status = 400 /\ "error" \in DOMAIN response.body)

\* C9: a failure of the embedding call, of either search or of the generation
\* call ends the request with status 500 and the one generic error body,
\* whatever failed and whatever the provider's error was; the body carries no
\* answer, confidence or source.
C9_ProviderFailureIs500 ==
  (emb.st = "failed" \/ qa.st = "failed" \/ gs.st = "failed" \/ gen.st = "failed") =>
    /\ Done
    /\ response.status = 500
    /\ response.body = [error |-> "Failed to process request"]
    /\ DOMAIN response.body \cap {"answer", "confidence", "source"} = {}

C9_Witness ==
  /\ gen.st = "failed"
  /\ thrown = <<"Failed to generate answer with OpenAI">>
  /\ response.status = 500

\* C10: both similarity searches are issued before the result of either is
\* awaited, the branch is decided only after both have completed, and the
\* general-source search does not depend on the QA search's result.
C10_SearchesIssuedTogether ==
  /\ qa.st # "none" => gs.st # "none"
  /\ (pc \in {"awaitGenGeneral", "awaitGenSimilar"} \/ (Done /\ response.status = 200))
       => (qa.st = "ok" /\ gs.st = "ok")

CallsTo(fn) == SelectSeq(calls, LAMBDA c : c.fn = fn)
Generates == response.body.source \in {"general_sources", "similar_questions"}

\* C11: every validated request that completes without a failure has issued
\* exactly one embedding call, exactly two similarity searches (one for QA
\* pairs, one for general sources) and at most one generation call, and the
\* generation call is made exactly when the source is general_sources or
\* similar_questions.
C11_CallCounts ==
  (Done /\ response.status = 200) =>
    /\ Len(CallsTo("getEmbedding")) = 1
    /\ Len(CallsTo("querySimilarQuestions")) = 1
    /\ Len(CallsTo("queryGeneralSources")) = 1
    /\ Len(GenerationCalls) <= 1
    /\ Len(GenerationCalls) = 1 <=> Generates

\* C12: the threshold is 0.80: a best match scoring at least 0.80 is answered
\* pinecone_direct and a best match scoring less is not.
C12_ThresholdIsEighty ==
  (Done /\ response.status = 200 /\ HasMatch) =>
    (response.body.source = "pinecone_direct" <=> bestMatch.score >= DocumentedThreshold)

ExternalFns == {"getEmbedding", "querySimilarQuestions", "queryGeneralSources"}
AtMostOnceEach ==
  /\ \A fn \in ExternalFns : Len(CallsTo(fn)) <= 1
  /\ Len(GenerationCalls) <= 1
FailureEndsRequest ==
  (emb.st = "failed" \/ qa.st = "failed" \/ gs.st = "failed" \/ gen.st = "failed")
    => (Done /\ response.status = 500)

\* C20 as stated: within one request no external call is attempted again: an
\* embedding, search or generation that failed is never issued a second time,
\* with the same or another model, and the request fails.
C20_NoReattempt ==
  /\ AtMostOnceEach
  /\ FailureEndsRequest
  /\ Len(requests) <= 1

\* C20 amended: embedding and search calls are never issued again and their
\* failure fails the request; a generation request is issued again only by the
\* OpenAI version of the library, only after context_length_exceeded, and then
\* with the FAST model; every other generation failure fails the request.
C20_ReattemptOnlyFallback ==
  /\ AtMostOnceEach
  /\ FailureEndsRequest
  /\ Len(requests) > 1 =>
       /\ lib = "openai"
       /\ \A i \in 2..Len(requests) : requests[i] = "FAST"
  /\ (lib = "azure" /\ requests # <<>>) => requests = <<"STANDARD">>

C20_Witness ==
  /\ lib = "openai"
  /\ requests = <<"STANDARD", "FAST">>
  /\ gen.st = "failed"
  /\ response.status = 500

\* C21: the branch and the confidence follow from the first returned match
\* alone: a first match below the threshold never gives pinecone_direct, even
\* when a later match is at or above the threshold, and confidence is the
\* first match's score, not the highest.
C21_FirstMatchDecides ==
  (Done /\ response.status = 200 /\ HasMatch) =>
    /\ response.body.source = "pinecone_direct" <=> ~BelowThreshold(variant, bestMatch.score)
    /\ response.body.confidence = bestMatch.score

C21_Witness ==
  /\ Done
  /\ response.status = 200
  /\ HasMatch
  /\ Len(qa.val[1]) = 2
  /\ BelowThreshold(variant, qa.val[1][1].score)
  /\ ~BelowThreshold(variant, qa.val[1][2].score)
  /\ response.body.source # "pinecone_direct"
  /\ response.body.confidence = qa.val[1][1].score

\* C27: a generation call falls back to the FAST model at most once: after a
\* second context_length_exceeded failure it raises an error and sends no
\* further request, so the call ends for every sequence of provider answers.
C27_FallbackAtMostOnce ==
  /\ Len(requests) <= 2
  /\ Len(requests) = 2 => requests[2] = "FAST"

\* ======================================================================
\* parseDocContent (src/import-from-google-docs.js:173-228)
\* ======================================================================
MaxLines == 4     \* most lines of a document

\* No request is served while a script runs.
HandlerIdle ==
  /\ variant = "route"
  /\ pc = "idle"
  /\ body = [question |-> <<>>, topK |-> <<>>]
  /\ question = <<>>
  /\ topK = DefaultTopK
  /\ emb = None
  /\ qa = None
  /\ gs = None
  /\ gen = None
  /\ lib = "none"
  /\ requests = <<>>
  /\ calls = <<>>
  /\ thrown = <<>>
  /\ response = NoResponse

\* The lines documents are made of, as typed (before the split and the trim).
LinePool ==
  { <<"Q", ":", "a">>,
    <<" ", "Q", ":", " ", "b", "*", " ">>,
    <<"A", ":", "x">>,
    <<"A", ":", " ", "y">>,
    <<"G", ":", "g">>,
    <<"G", ":", "h">>,
    <<"G", ":", " ">>,
    <<"Q", ":", "a", "A", ":", "x">>,
    <<"Q", ":", "a", "*", "A", ":", "x", "A", ":", "y">>,
    <<"Q", ":", "A", ":">>,
    <<" ">>,
    <<"n">> }

RECURSIVE Join(_)
Join(ls) ==
  IF ls = <<>> THEN <<>>
  ELSE IF Len(ls) = 1 THEN ls[1]
  ELSE ls[1] \o <<"\n">> \o Join(Tail(ls))

Docs == { Join(ls) : ls \in UNION { [1..n -> LinePool] : n \in 0..MaxLines } }

\* The characters /[^\w\s.,?!;:()'"-]/ leaves alone.
WordChars == {"Q", "A", "G", "a", "b", "g", "h", "n", "x", "y"}
Whitespace == {" ", "\n"}
Punctuation == {".", ",", "?", "!", ";", ":", "(", ")", "'", "\"", "-"}

\* s.indexOf(p) + 1 for strings: the 1-based position of the first
\* occurrence of p in s, 0 when there is none.
IndexOf(s, p) ==
  LET at == { k \in 1..(Len(s) - Len(p) + 1) : SubSeq(s, k, k + Len(p) - 1) = p }
  IN  IF at = {} THEN 0 ELSE CHOOSE k \in at : \A j \in at : k <= j

startsWith(s, p) == Len(s) >= Len(p) /\ SubSeq(s, 1, Len(p)) = p
includes(s, p) == IndexOf(s, p) # 0

\* s.split(p): the pieces of s between all the occurrences of p.
RECURSIVE split(_, _)
split(s, p) ==
  LET k == IndexOf(s, p)
  IN  IF k = 0 THEN <<s>>
      ELSE <<SubSeq(s, 1, k - 1)>> \o split(SubSeq(s, k + Len(p), Len(s)), p)

\* s.substring(2)
substring(s) == SubSeq(s, 3, Len(s))

\* .map(line => line.trim())
Map(ls) == [k \in 1..Len(ls) |-> trim(ls[k])]

\* .filter(Boolean): the empty string is falsy.
Filter(ls) == SelectSeq(ls, LAMBDA l : l # <<>>)

\* lines.indexOf(line): the 0-based position of the FIRST line equal to line.
indexOf(ls, line) ==
  (CHOOSE k \in 1..Len(ls) : ls[k] = line /\ \A j \in 1..(k - 1) : ls[j] # line) - 1

\* The question trimmed but otherwise left as it is.
replaceNothing(q) == trim(q)

\* question.replace(/[^\w\s.,?!;:()'"-]/g, ' ').trim()
replace(q) ==
  trim([k \in 1..Len(q) |->
          IF q[k] \in WordChars \cup Whitespace \cup Punctuation THEN q[k] ELSE " "])

\* The first loop's body with the test of line 185 left out.
pushGeneralUnchecked(acc, line) ==
  IF startsWith(line, <<"G", ":">>) THEN Append(acc, trim(substring(line))) ELSE acc

\* Lines 182-187: the body of the first loop.
pushGeneral(acc, line) ==
  IF startsWith(line, <<"G", ":">>) /\ trim(substring(line)) # <<>>
  THEN Append(acc, trim(substring(line)))
  ELSE acc

\* Lines 196-207: the pair of a line holding both the question and the answer.
sameLinePair(line) ==
  LET parts == split(line, <<"A", ":">>)
  IN  [question |-> replace(trim(substring(parts[1]))), answer |-> trim(parts[2])]

\* Line 213
nextIndex(ls, line) == indexOf(ls, line) + 1

\* Line 214
hasAnswer(ls, line) ==
  nextIndex(ls, line) < Len(ls) /\ startsWith(ls[nextIndex(ls, line) + 1], <<"A", ":">>)

\* Lines 211-219: the pair of a question whose answer is on another line.
splitLinePair(ls, line) ==
  [question |-> trim(substring(line)),
   answer |-> trim(substring(ls[nextIndex(ls, line) + 1]))]

\* A push that leaves out a pair the list already holds.
pushIfNew(acc, pair) ==
  IF \E k \in 1..Len(acc) : acc[k] = pair THEN acc ELSE Append(acc, pair)

\* A push that adds the pair twice.
pushTwice(acc, pair) == Append(Append(acc, pair), pair)

\* qaPairs.push({ question, answer }) (lines 204 and 216)
push(acc, pair) == Append(acc, pair)

line == lines[lineNo + 1]
isSameLine(l) == startsWith(l, <<"Q", ":">>) /\ includes(l, <<"A", ":">>)
isSplitLine(l) == startsWith(l, <<"Q", ":">>) /\ ~includes(l, <<"A", ":">>)

InitParse ==
  /\ HandlerIdle
  /\ UploadIdle
  /\ DocIdle
  /\ parsePc = "split"
  /\ content \in Docs
  /\ lines = <<>>
  /\ lineNo = 0
  /\ emittedAt = <<>>

\* Line 178
SplitContent ==
  /\ parsePc = "split"
  /\ lines' = Filter(Map(split(content, <<"\n">>)))
  /\ parsePc' = "general"
  /\ UNCHANGED <<content, lineNo, emittedAt, docVars, handlerVars, uploadVars>>

\* Lines 181-188: one iteration of the first loop.
CollectGeneral ==
  /\ parsePc = "general"
  /\ lineNo < Len(lines)
  /\ generalSources' = pushGeneral(generalSources, line)
  /\ lineNo' = lineNo + 1
  /\ UNCHANGED <<parsePc, content, lines, emittedAt, qaPairs, handlerVars, uploadVars>>

\* The first loop ends and the second (line 192) starts.
EndGeneral ==
  /\ parsePc = "general"
  /\ lineNo = Len(lines)
  /\ parsePc' = "pairs"
  /\ lineNo' = 0
  /\ UNCHANGED <<content, lines, emittedAt, docVars, handlerVars, uploadVars>>

\* Lines 194-208
ParseSameLine ==
  /\ parsePc = "pairs"
  /\ lineNo < Len(lines)
  /\ isSameLine(line)
  /\ qaPairs' = push(qaPairs, sameLinePair(line))
  /\ emittedAt' = Append(emittedAt, lineNo)
  /\ lineNo' = lineNo + 1
  /\ UNCHANGED <<parsePc, content, lines, generalSources, handlerVars, uploadVars>>

\* Lines 209-223
ParseSplitLine ==
  /\ parsePc = "pairs"
  /\ lineNo < Len(lines)
  /\ isSplitLine(line)
  /\ IF hasAnswer(lines, line)
     THEN /\ qaPairs' = push(qaPairs, splitLinePair(lines, line))
          /\ emittedAt' = Append(emittedAt, lineNo)
     ELSE UNCHANGED <<qaPairs, emittedAt>>
  /\ lineNo' = lineNo + 1
  /\ UNCHANGED <<parsePc, content, lines, generalSources, handlerVars, uploadVars>>

\* A line that does not start with 'Q:' is passed over by the second loop.
SkipLine ==
  /\ parsePc = "pairs"
  /\ lineNo < Len(lines)
  /\ ~startsWith(line, <<"Q", ":">>)
  /\ lineNo' = lineNo + 1
  /\ UNCHANGED <<parsePc, content, lines, emittedAt, docVars, handlerVars, uploadVars>>

\* Line 227
Return ==
  /\ parsePc = "pairs"
  /\ lineNo = Len(lines)
  /\ parsePc' = "done"
  /\ UNCHANGED <<content, lines, lineNo, emittedAt, docVars, handlerVars, uploadVars>>

NextParse ==
  \/ SplitContent
  \/ CollectGeneral
  \/ EndGeneral
  \/ ParseSameLine
  \/ ParseSplitLine
  \/ SkipLine
  \/ Return

SpecParse == InitParse /\ [][NextParse]_vars

\* ------------------------------------------- properties of parseDocContent
Parsed == parsePc = "done"
Positions == 0..(Len(lines) - 1)
LineAt(i) == lines[i + 1]
Emitted(i) == \E k \in 1..Len(emittedAt) : emittedAt[k] = i
PairsAt(i) == { qaPairs[k] : k \in { j \in 1..Len(emittedAt) : emittedAt[j] = i } }
AnswerFollows(i) == i + 1 < Len(lines) /\ startsWith(LineAt(i + 1), <<"A", ":">>)

\* C14: a line at position i that starts with 'Q:' and holds no 'A:' gives a
\* pair exactly when line i+1 exists and starts with 'A:', the answer being
\* that line's content without the prefix, trimmed, also when the same
\* question text stands at several positions; a question without answer is
\* dropped and parsing goes on; 'A:' lines emit nothing of their own.
C14_SplitLineQuestions ==
  Parsed =>
    /\ \A i \in Positions :
         isSplitLine(LineAt(i)) =>
           /\ Emitted(i) <=> AnswerFollows(i)
           /\ Emitted(i) =>
                PairsAt(i) = {[question |-> trim(substring(LineAt(i))),
                               answer |-> trim(substring(LineAt(i + 1)))]}
    /\ \A i \in Positions : Emitted(i) => startsWith(LineAt(i), <<"Q", ":">>)

GeneralLines ==
  SelectSeq(lines, LAMBDA l : startsWith(l, <<"G", ":">>) /\ trim(substring(l)) # <<>>)

\* C15: generalSources is the content, without prefix and trimmed, of every
\* 'G:' line with non-empty content, in document order, wherever those lines
\* stand among the others; qaPairs follows the document order of the 'Q:'
\* lines the pairs come from.
C15_OrderAndGeneralSources ==
  Parsed =>
    /\ generalSources = [k \in 1..Len(GeneralLines) |-> trim(substring(GeneralLines[k]))]
    /\ Len(emittedAt) = Len(qaPairs)
    /\ \A j, k \in 1..Len(emittedAt) : j < k => emittedAt[j] < emittedAt[k]
    /\ \A k \in 1..Len(emittedAt) : startsWith(LineAt(emittedAt[k]), <<"Q", ":">>)

C15_Witness ==
  /\ Parsed
  /\ lines = << <<"G", ":", "h">>, <<"Q", ":", "a", "A", ":", "x">>, <<"G", ":", "g">> >>
  /\ generalSources = << <<"h">>, <<"g">> >>
  /\ qaPairs = <<[question |-> <<"a">>, answer |-> <<"x">>]>>

FirstAnswer(l) == IndexOf(l, <<"A", ":">>)

\* C16: a line that starts with 'Q:' and holds 'A:' is split at the first
\* 'A:': the question is what stands between 'Q:' and it, the answer is all
\* of the rest of the line, trimmed, further 'A:' included.
C16_SplitAtFirstAnswer ==
  Parsed =>
    \A i \in Positions :
      isSameLine(LineAt(i)) =>
        PairsAt(i) =
          {[question |-> replace(trim(SubSeq(LineAt(i), 3, FirstAnswer(LineAt(i)) - 1))),
            answer |-> trim(SubSeq(LineAt(i), FirstAnswer(LineAt(i)) + 2, Len(LineAt(i))))]}

\* A question line all of whose occurrences are followed by the same line.
SameFollower(i) ==
  \A j \in Positions :
    LineAt(j) = LineAt(i) => (j + 1 < Len(lines) /\ LineAt(j + 1) = LineAt(i + 1))
PushesFor(i) == { k \in 1..Len(emittedAt) : emittedAt[k] = i }

AddsGeneral(l) == pushGeneral(<<>>, l) # <<>>
Categories(l) ==
  (IF startsWith(l, <<"G", ":">>) THEN {"general-source"} ELSE {})
    \cup (IF isSameLine(l) THEN {"same-line"} ELSE {})
    \cup (IF isSplitLine(l) THEN {"split-line"} ELSE {})

\* C23: every line falls in at most one of the categories general source,
\* same-line Q/A, split-line Q, ignored: no line both adds a general source
\* and starts a pair, and no line starts more than one pair.
C23_OneCategoryPerLine ==
  Parsed =>
    /\ \A i \in Positions :
         /\ Cardinality(Categories(LineAt(i))) <= 1
         /\ ~(AddsGeneral(LineAt(i)) /\ Emitted(i))
         /\ Emitted(i) => Categories(LineAt(i)) \subseteq {"same-line", "split-line"}
         /\ Cardinality(PushesFor(i)) <= 1
    /\ Len(qaPairs) = Cardinality({ i \in Positions : Emitted(i) })
    /\ Len(generalSources) = Cardinality({ i \in Positions : AddsGeneral(LineAt(i)) })

C23_Witness ==
  /\ Parsed
  /\ lines = << <<"G", ":", "g">>, <<"Q", ":", "a", "A", ":", "x">>, <<"Q", ":", "a">>,
                <<"n">> >>
  /\ Len(generalSources) = 1
  /\ Len(qaPairs) = 1

Allowed == WordChars \cup Whitespace \cup Punctuation
Questions(i) == { p.question : p \in PairsAt(i) }

\* C24: the question of a pair made from a same-line 'Q: ... A: ...' line
\* holds only word characters, whitespace and . , ? ! ; : ( ) ' " - , every
\* other character having been replaced by a space before the last trim; the
\* question of a pair made from a split-line 'Q:' line is left as written.
C24_SanitisedSameLineOnly ==
  Parsed =>
    \A i \in Positions :
      /\ isSameLine(LineAt(i)) =>
           /\ \A q \in Questions(i) : \A k \in 1..Len(q) : q[k] \in Allowed
           /\ Questions(i) =
                {trim([k \in 1..(FirstAnswer(LineAt(i)) - 3) |->
                         IF LineAt(i)[k + 2] \in Allowed THEN LineAt(i)[k + 2] ELSE " "])}
      /\ (isSplitLine(LineAt(i)) /\ Emitted(i)) =>
           Questions(i) = {trim(SubSeq(LineAt(i), 3, Len(LineAt(i))))}

C24_Witness ==
  /\ Parsed
  /\ lines = << <<"Q", ":", "a", "*", "A", ":", "x", "A", ":", "y">>,
                <<"Q", ":", " ", "b", "*">>, <<"A", ":", "x">> >>
  /\ qaPairs = << [question |-> <<"a">>, answer |-> <<"x">>],
                  [question |-> <<"b", "*">>, answer |-> <<"x">>] >>

\* C28: every pair parseDocContent returns has a non-empty question and a
\* non-empty answer, whether it comes from a same-line or a split-line
\* question.
C28_NoEmptyQuestionOrAnswer ==
  Parsed =>
    \A k \in 1..Len(qaPairs) : qaPairs[k].question # <<>> /\ qaPairs[k].answer # <<>>

\* ======================================================================
\* uploadQAPairsToPinecone (src/import-from-google-docs.js:79-164,
\* src/src/scripts/ingest.ts:18-69) and the queries against the index
\* ======================================================================
MaxPairs == 3     \* most QA pairs handed to one run
MaxSources == 2   \* most general sources handed to one run
batchSize == 2    \* records per batch: 10 in the scripts, scaled with MaxPairs

Scripts == {"import", "ingest"}

\* The runs of the script against one index: a first one and a re-run.
Runs == {1, 2}

\* The records of a run are told apart by the run and their position.
Pair(r, i) == [question |-> <<"question", r, i>>, answer |-> <<"answer", r, i>>]
Pairs(r, n) == [k \in 1..n |-> Pair(r, k - 1)]
Sources(r, n) == [k \in 1..n |-> <<"source", r, k - 1>>]

\* An id counted from the start of each batch.
IdInBatch(ph, n) == <<IF ph = "qa" THEN "q" ELSE "g", n % batchSize>>

\* `q${n}` and `g${n}`
Id(ph, n) == <<IF ph = "qa" THEN "q" ELSE "g", n>>

\* Lines 103-107 and 140-143; ingest.ts:41-44 writes no type.
Metadata(sc, ph, item) ==
  IF ph = "general" THEN [type |-> "general_source", content |-> item]
  ELSE IF sc = "import"
       THEN [type |-> "qa_pair", question |-> item.question, answer |-> item.answer]
       ELSE [question |-> item.question, answer |-> item.answer]

\* The error passed on as the run's error.
uploadErrorLeaky(sc, e) == e

\* catch (error) { throw new Error('Failed to upload data to Pinecone') }
\* (ingest.ts:67 'Failed to upload QA pairs to Pinecone'), whatever the cause.
uploadError(sc, e) ==
  IF sc = "import" THEN "Failed to upload data to Pinecone"
  ELSE "Failed to upload QA pairs to Pinecone"

\* An import that calls the upload whatever the document gave.
SkipsUploadNever(sc, n) == FALSE

\* importQAPairsFromGoogleDocs: if (qaPairs.length === 0) return (343-346);
\* ingest.ts has no such test.
SkipsUpload(sc, n) == sc = "import" /\ n = 0

\* A counter that goes on from the value the last run left.
InitialCounterKept(c) == c

\* let qaCounter = 0; let generalCounter = 0
InitialCounter(c) == 0

\* A slice that runs one record into the next batch.
BatchOverlapping(items, i) ==
  { p \in i..(i + batchSize) : p < Len(items) }

\* qaPairs.slice(i, i + batchSize): the positions of the batch starting at i.
Batch(items, i) ==
  { p \in i..(i + batchSize - 1) : p < Len(items) }

\* index.upsert(vectors): a record replaces the one with its id, if any.
Upsert(idx, vs) ==
  { r \in idx : \A v \in vs : v.id # r.id }
    \cup { [id |-> v.id, metadata |-> v.metadata] : v \in vs }

HasType(r, t) == "type" \in DOMAIN r.metadata /\ r.metadata.type = t

\* index.query({vector, topK, includeMetadata: true}) of querySimilarQuestions:
\* the records nearest to the vector, whatever their metadata.
Nearest(idx) == idx

\* The query of queryGeneralSources, with a filter on the type field.
NearestGeneral(idx) == { r \in idx : HasType(r, "general_source") }

Items == IF phase = "qa" THEN qaPairs ELSE generalSources

InitUpload ==
  /\ HandlerIdle
  /\ ParseIdle
  /\ DocIdle
  /\ script \in Scripts
  /\ run = 0
  /\ uploadPc = "idle"
  /\ phase = "qa"
  /\ batchStart = 0
  /\ counter = 0
  /\ inFlight = {}
  /\ vectors = {}
  /\ index = {}
  /\ before = {}
  /\ upserted = <<>>
  /\ uploadThrown = <<>>
  /\ matches = <<>>

\* importQAPairsFromGoogleDocs (336-360): the document gave no pair, so the
\* run returns at line 345 without calling the upload.
NothingToImport ==
  /\ uploadPc \in {"idle", "failed"}
  /\ run + 1 \in Runs
  /\ run' = run + 1
  /\ \E n \in 0..MaxPairs :
       /\ SkipsUpload(script, n)
       /\ qaPairs' = Pairs(run + 1, n)
  /\ \E m \in 0..MaxSources : generalSources' = Sources(run + 1, m)
  /\ uploadPc' = "idle"
  /\ before' = index
  /\ matches' = <<>>
  /\ UNCHANGED <<script, phase, batchStart, counter, inFlight, vectors, index>>
  /\ upserted' = <<>>
  /\ uploadThrown' = <<>>
  /\ UNCHANGED <<handlerVars, parseVars>>

\* A run calls uploadQAPairsToPinecone: lines 79-92.
StartUpload ==
  /\ uploadPc \in {"idle", "failed"}
  /\ run + 1 \in Runs
  /\ run' = run + 1
  /\ \E n \in 0..MaxPairs :
       /\ ~SkipsUpload(script, n)
       /\ qaPairs' = Pairs(run + 1, n)
  /\ \E m \in 0..MaxSources :
       /\ script = "ingest" => m = 0
       /\ generalSources' = Sources(run + 1, m)
  /\ uploadPc' = "loop"
  /\ phase' = "qa"
  /\ batchStart' = 0
  /\ counter' = InitialCounter(counter)
  /\ inFlight' = {}
  /\ vectors' = {}
  /\ before' = index
  /\ matches' = <<>>
  /\ UNCHANGED <<script, index>>
  /\ upserted' = <<>>
  /\ uploadThrown' = <<>>
  /\ UNCHANGED <<handlerVars, parseVars>>

\* Lines 93-97: batch.map starts the callback of every record of the batch,
\* each of which calls getEmbedding and waits for it.
StartBatch ==
  /\ uploadPc = "loop"
  /\ batchStart < Len(Items)
  /\ inFlight' = Batch(Items, batchStart)
  /\ vectors' = {}
  /\ uploadPc' = "embedding"
  /\ UNCHANGED <<script, run, phase, batchStart, counter, index, before, matches>>
  /\ UNCHANGED <<upserted, uploadThrown>>
  /\ UNCHANGED <<handlerVars, parseVars, docVars>>

\* Lines 97-113: the getEmbedding of the record at position p returns and its
\* callback goes on: it takes the counter's value as id and increments it.
\* When it was the last one, Promise.all resolves and line 118 calls upsert.
UploadEmbeddingReturns ==
  /\ uploadPc = "embedding"
  /\ \E p \in inFlight :
       /\ vectors' = vectors \cup
            {[pos |-> p, id |-> Id(phase, counter),
              metadata |-> Metadata(script, phase, Items[p + 1])]}
       /\ inFlight' = inFlight \ {p}
       /\ uploadPc' = IF inFlight = {p} THEN "upsert" ELSE "embedding"
  /\ counter' = counter + 1
  /\ UNCHANGED <<script, run, phase, batchStart, index, before, matches>>
  /\ UNCHANGED <<upserted, uploadThrown>>
  /\ UNCHANGED <<handlerVars, parseVars, docVars>>

\* A getEmbedding of the batch throws: Promise.all rejects and the catch of
\* line 160 throws 'Failed to upload data to Pinecone'.
UploadEmbeddingFails ==
  /\ uploadPc = "embedding"
  /\ inFlight' = {}
  /\ vectors' = {}
  /\ uploadPc' = "failed"
  /\ UNCHANGED <<script, run, phase, batchStart, counter, index, before, matches>>
  /\ \E e \in ProviderErrors : uploadThrown' = <<uploadError(script, e)>>
  /\ UNCHANGED upserted
  /\ UNCHANGED <<handlerVars, parseVars, docVars>>

\* Line 118 (154): the upsert of the batch returns; the loop goes on.
UpsertReturns ==
  /\ uploadPc = "upsert"
  /\ index' = Upsert(index, vectors)
  /\ batchStart' = batchStart + batchSize
  /\ vectors' = {}
  /\ uploadPc' = "loop"
  /\ UNCHANGED <<script, run, phase, counter, inFlight, before, matches>>
  /\ upserted' = Append(upserted, [phase |-> phase, vectors |-> vectors])
  /\ UNCHANGED uploadThrown
  /\ UNCHANGED <<handlerVars, parseVars, docVars>>

\* The upsert throws: the catch of line 160 throws the generic error.
UpsertFails ==
  /\ uploadPc = "upsert"
  /\ vectors' = {}
  /\ uploadPc' = "failed"
  /\ UNCHANGED <<script, run, phase, batchStart, counter, inFlight, index, before, matches>>
  /\ \E e \in ProviderErrors : uploadThrown' = <<uploadError(script, e)>>
  /\ UNCHANGED upserted
  /\ UNCHANGED <<handlerVars, parseVars, docVars>>

\* Lines 122-130: the QA loop is over, the loop over the general sources starts.
GeneralPhase ==
  /\ uploadPc = "loop"
  /\ phase = "qa"
  /\ script = "import"
  /\ batchStart >= Len(Items)
  /\ phase' = "general"
  /\ batchStart' = 0
  /\ counter' = InitialCounter(counter)
  /\ UNCHANGED <<script, run, uploadPc, inFlight, vectors, index, before, matches>>
  /\ UNCHANGED <<upserted, uploadThrown>>
  /\ UNCHANGED <<handlerVars, parseVars, docVars>>

\* Line 158 (ingest.ts:64): the last loop is over and the function returns.
UploadDone ==
  /\ uploadPc = "loop"
  /\ phase = "general" \/ script = "ingest"
  /\ batchStart >= Len(Items)
  /\ uploadPc' = "idle"
  /\ UNCHANGED <<script, run, phase, batchStart, counter, inFlight, vectors, index, before,
                 matches>>
  /\ UNCHANGED <<upserted, uploadThrown>>
  /\ UNCHANGED <<handlerVars, parseVars, docVars>>

\* part_001:26-34: a request's QA search, for a vector near any record.
QuerySimilarQuestions ==
  /\ uploadPc \in {"idle", "failed"}
  /\ run > 0
  /\ matches = <<>>
  /\ \E r \in Nearest(index) :
       matches' = [fn |-> "querySimilarQuestions", result |-> <<r>>]
  /\ UNCHANGED <<script, run, uploadPc, phase, batchStart, counter, inFlight, vectors, index,
                 before>>
  /\ UNCHANGED <<upserted, uploadThrown>>
  /\ UNCHANGED <<handlerVars, parseVars, docVars>>

\* A request's general-source search.
QueryGeneralSources ==
  /\ uploadPc \in {"idle", "failed"}
  /\ run > 0
  /\ matches = <<>>
  /\ \E r \in NearestGeneral(index) :
       matches' = [fn |-> "queryGeneralSources", result |-> <<r>>]
  /\ UNCHANGED <<script, run, uploadPc, phase, batchStart, counter, inFlight, vectors, index,
                 before>>
  /\ UNCHANGED <<upserted, uploadThrown>>
  /\ UNCHANGED <<handlerVars, parseVars, docVars>>

NextUpload ==
  \/ NothingToImport
  \/ StartUpload
  \/ StartBatch
  \/ UploadEmbeddingReturns
  \/ UploadEmbeddingFails
  \/ UpsertReturns
  \/ UpsertFails
  \/ GeneralPhase
  \/ UploadDone
  \/ QuerySimilarQuestions
  \/ QueryGeneralSources

SpecUpload == InitUpload /\ [][NextUpload]_vars

\* ----------------------------------------------- properties of the upload
\* C17: the record at position i of the input is upserted with id q<i> (a
\* general source at position j with g<j>), whatever the order in which the
\* embedding calls of a batch return.
C17_IdIsPosition ==
  \A v \in vectors : v.id = Id(phase, v.pos)

RunOver == uploadPc = "idle" /\ run > 0
QARecords(idx, from) == { r \in idx : r.id[1] = "q" /\ r.id[2] >= from }

\* C18: every run numbers its records from q0 and g0 again; after a run over
\* n pairs the records q0..q(n-1) hold that run's pairs, and the records of
\* an earlier run with ids from q(n) on are in the index as they were.
C18_RunsRestartAtZero ==
  /\ uploadPc \in {"embedding", "upsert"} => counter = batchStart + Cardinality(vectors)
  /\ RunOver =>
       /\ { r.metadata : r \in { x \in index : x.id[1] = "q" /\ x.id[2] < Len(qaPairs) } }
            = { Metadata(script, "qa", qaPairs[k]) : k \in 1..Len(qaPairs) }
       /\ \A i \in 0..(Len(qaPairs) - 1) :
            Cardinality({ r \in index : r.id = Id("qa", i) }) = 1
       /\ QARecords(index, Len(qaPairs)) = QARecords(before, Len(qaPairs))

C18_Witness ==
  /\ RunOver
  /\ run = 2
  /\ Len(qaPairs) = 1
  /\ [id |-> Id("qa", 1), metadata |-> Metadata(script, "qa", Pair(1, 1))] \in index
  /\ [id |-> Id("qa", 0), metadata |-> Metadata(script, "qa", Pair(2, 0))] \in index

BothKinds ==
  /\ \E r \in index : HasType(r, "qa_pair")
  /\ \E r \in index : HasType(r, "general_source")

\* C19: with both kinds of record in one index, the QA query returns only
\* records of type qa_pair and the general-source query only records of type
\* general_source, so that no general source is taken as the best match.
C19_QueriesFilterByType ==
  (BothKinds /\ matches # <<>>) =>
    \A k \in 1..Len(matches.result) :
      /\ matches.fn = "querySimilarQuestions" => HasType(matches.result[k], "qa_pair")
      /\ matches.fn = "queryGeneralSources" => HasType(matches.result[k], "general_source")

\* The records of the input of a phase, and the upsert calls of a phase that
\* have returned, in the order of the calls.
InputOf(ph) == IF ph = "qa" THEN qaPairs ELSE generalSources
LogOf(ph) == SelectSeq(upserted, LAMBDA u : u.phase = ph)
PositionsOf(u) == { v.pos : v \in u.vectors }
\* The run called uploadQAPairsToPinecone and the call returned.
UploadReturned == RunOver /\ ~SkipsUpload(script, Len(qaPairs))

\* C25: the input is cut into consecutive batches of at most batchSize records
\* (10 in the scripts), all but the last of exactly batchSize; the batches are
\* processed one at a time, no embedding call of a batch being issued before
\* the upsert of the batch before it has returned; and when the run returns
\* every record of the input has been upserted exactly once.
C25_BatchesInTurn ==
  /\ \A ph \in {"qa", "general"} :
       \A j \in 1..Len(LogOf(ph)) :
         /\ PositionsOf(LogOf(ph)[j]) =
              { p \in 0..(Len(InputOf(ph)) - 1) :
                  (j - 1) * batchSize <= p /\ p < j * batchSize }
         /\ Cardinality(LogOf(ph)[j].vectors) <= batchSize
         /\ j * batchSize < Len(InputOf(ph)) =>
              Cardinality(LogOf(ph)[j].vectors) = batchSize
  /\ uploadPc \in {"embedding", "upsert"} =>
       /\ Len(LogOf(phase)) * batchSize = batchStart
       /\ \A p \in inFlight \cup { v.pos : v \in vectors } :
            batchStart <= p /\ p < batchStart + batchSize
       /\ phase = "general" => Len(LogOf("qa")) * batchSize >= Len(qaPairs)
  /\ UploadReturned =>
       \A ph \in {"qa", "general"} :
         (script = "ingest" /\ ph = "general") \/
         \A p \in 0..(Len(InputOf(ph)) - 1) :
           Cardinality({ j \in 1..Len(LogOf(ph)) : p \in PositionsOf(LogOf(ph)[j]) }) = 1

C25_Witness ==
  /\ UploadReturned
  /\ Len(qaPairs) = batchSize + 1
  /\ Len(LogOf("qa")) = 2
  /\ Cardinality(LogOf("qa")[1].vectors) = batchSize
  /\ Cardinality(LogOf("qa")[2].vectors) = 1

\* The ids given to the QA records of the upsert calls so far, and the number
\* of such records.
QAIds == UNION { { v.id : v \in LogOf("qa")[j].vectors } : j \in 1..Len(LogOf("qa")) }
RECURSIVE QACount(_)
QACount(j) == IF j = 0 THEN 0 ELSE Cardinality(LogOf("qa")[j].vectors) + QACount(j - 1)

\* C26: in one run, in whatever order the embedding calls of a batch return,
\* the ids given to the n pairs are pairwise distinct and are exactly
\* q0..q(n-1), and the records of the batch starting at position b only get
\* ids from b up to b plus the size of the batch.
C26_IdsAreAPermutation ==
  /\ phase = "qa" =>
       /\ \A v \in vectors :
            /\ v.id[1] = "q"
            /\ batchStart <= v.id[2]
            /\ v.id[2] < batchStart + Cardinality(Batch(qaPairs, batchStart))
       /\ \A v, w \in vectors : v.id = w.id => v.pos = w.pos
       /\ uploadPc = "upsert" =>
            { v.id[2] : v \in vectors } = { v.pos : v \in vectors }
  /\ \A j \in 1..Len(LogOf("qa")) :
       { v.id : v \in LogOf("qa")[j].vectors } =
         { <<"q", p>> : p \in PositionsOf(LogOf("qa")[j]) }
  /\ UploadReturned =>
       /\ QAIds = { <<"q", i>> : i \in 0..(Len(qaPairs) - 1) }
       /\ QACount(Len(LogOf("qa"))) = Len(qaPairs)

C26_Witness ==
  /\ UploadReturned
  /\ Len(qaPairs) = batchSize + 1
  /\ \E v, w \in LogOf("qa")[1].vectors : v.pos < w.pos /\ v.id[2] > w.id[2]

\* C29: an import whose document gave no pair makes no upsert at all, even
\* when the document gave general sources; general sources are upserted only
\* by imports that parsed at least one pair, and only after every QA batch of
\* the run has been upserted.
C29_NoPairsNoUpsert ==
  script = "import" =>
    /\ (run > 0 /\ qaPairs = <<>>) =>
         /\ uploadPc = "idle"
         /\ upserted = <<>>
         /\ index = before
    /\ \A k \in 1..Len(upserted) :
         upserted[k].phase = "general" =>
           /\ Len(qaPairs) > 0
           /\ \A p \in 0..(Len(qaPairs) - 1) :
                \E j \in 1..(k - 1) :
                  upserted[j].phase = "qa" /\ p \in PositionsOf(upserted[j])
           /\ \A j \in k..Len(upserted) : upserted[j].phase = "general"
    /\ index # before /\ (\E r \in index \ before : r.id[1] = "g") => Len(qaPairs) > 0

C29_Witness ==
  /\ RunOver
  /\ script = "import"
  /\ qaPairs = <<>>
  /\ Len(generalSources) = MaxSources
  /\ upserted = <<>>
  /\ index = before

\* The index after the first j upsert calls of the run.
RECURSIVE ApplyLog(_, _)
ApplyLog(idx, j) ==
  IF j = 0 THEN idx ELSE Upsert(ApplyLog(idx, j - 1), upserted[j].vectors)

\* C30: when an embedding call or an upsert of the run fails, the run stops
\* with one generic error; no record of the failing batch or of a later one
\* is upserted (no general source at all when a QA batch fails), and the
\* records of the batches upserted before the failure stay in the index.
C30_FailureStopsRun ==
  /\ uploadThrown # <<>> <=> uploadPc = "failed"
  /\ uploadPc = "failed" =>
       /\ uploadThrown = <<IF script = "import" THEN "Failed to upload data to Pinecone"
                           ELSE "Failed to upload QA pairs to Pinecone">>
       /\ batchStart < Len(Items)
       /\ Len(LogOf(phase)) * batchSize = batchStart
       /\ \A j \in 1..Len(upserted) :
            upserted[j].phase = phase =>
              \A p \in PositionsOf(upserted[j]) : p < batchStart
       /\ \A p \in batchStart..(Len(Items) - 1) :
            \A r \in index : r.metadata # Metadata(script, phase, Items[p + 1])
       /\ phase = "qa" =>
            /\ LogOf("general") = <<>>
            /\ \A k \in 1..Len(generalSources) :
                 \A r \in index : r.metadata # Metadata(script, "general", generalSources[k])
       /\ index = ApplyLog(before, Len(upserted))
       /\ \A j \in 1..Len(upserted) :
            \A v \in upserted[j].vectors : [id |-> v.id, metadata |-> v.metadata] \in index

C30_Witness ==
  /\ uploadPc = "failed"
  /\ script = "import"
  /\ phase = "qa"
  /\ Len(upserted) = 1
  /\ Cardinality(upserted[1].vectors) = batchSize
  /\ batchStart = batchSize
  /\ generalSources # <<>>
  /\ index # before
====
